---- MODULE Spec2Model ----
(***************************************************************************)
(* Model of the dashboard's monitoring/action engine:                      *)
(*   dashboard/system.py  Action, System and its subclasses, the mixins    *)
(*   dashboard/ui.py      init_ui: the renderer and the refresh scheduler  *)
(*   example.py           ExampleSystem                                    *)
(*                                                                         *)
(* Python values whose type matters are tagged records: PyStr, PyBytes.    *)
(* A text is a sequence of tokens; "" is the empty sequence.               *)
(***************************************************************************)
EXTENDS Integers, Sequences, FiniteSets, TLC

VARIABLES
    state,          \* System.state, per system
    state_verbose,  \* System.state_verbose, per system
    last_update,    \* System.last_update, per system
    started,        \* ExampleSystem.started, per system
    now,            \* time.time()
    sut,            \* the system a sequential run operates on
    escaped,        \* exception that left the last _update_state call, or NoExc
    notifications,  \* every ui.notify so far, in order
    last_call,      \* the last Action.__call__: action, notes emitted, raised
    last_probe,     \* what the probe of the last refresh met
    ssh_pc,         \* where the running ssh_exec is
    client,         \* the SSHClient of ssh_exec: "none", "open", "closed"
    chan,           \* the paramiko channel: exit status, received output
    remote,         \* the remote command: "none", "running", "exited"
    last_output_chunk,  \* local of ssh_exec
    ssh_result,     \* how ssh_exec ended
    queue,          \* refresh tasks handed to the thread pool, not yet started
    workers,        \* per pool worker: the refresh task it runs, or Idle
    rpc,            \* the renderer: item of the systems list and position
    seen,           \* what the renderer has read of the item it is painting
    render_error,   \* exception that ended the last systems_list() run
    wol_pc,         \* where the running wakeonlan is
    host_mac,       \* self.host_mac, a text of single characters
    magic_packet,   \* local of wakeonlan: the bytes built
    sock,           \* the UDP socket of wakeonlan: "none", "open", "closed"
    sent,           \* the datagrams handed to sendto, in order
    wol_result      \* how wakeonlan ended

sysVars == <<state, state_verbose, last_update, started>>

seqVars == <<now, sut, escaped, notifications, last_call, last_probe>>

sshVars == <<ssh_pc, client, chan, remote, last_output_chunk, ssh_result>>

poolVars == <<queue, workers>>

renderVars == <<rpc, seen, render_error>>

wolVars == <<wol_pc, host_mac, magic_packet, sock, sent, wol_result>>

vars == <<state, state_verbose, last_update, started,
          now, sut, escaped, notifications, last_call, last_probe,
          ssh_pc, client, chan, remote, last_output_chunk, ssh_result,
          queue, workers, rpc, seen, render_error,
          wol_pc, host_mac, magic_packet, sock, sent, wol_result>>

----------------------------------------------------------------------------
(* Bounds *)

MaxTime == 4

\* output chunks a remote command sends at most
MaxChunks == 2

\* timer ticks of the refresh scheduler
MaxTicks == 2

\* threads of the pool run.io_bound hands the refreshes to
MaxWorkers == 2

----------------------------------------------------------------------------
(* Python values *)

PyStr(toks) == [t |-> "str", v |-> toks]

PyBytes(toks) == [t |-> "bytes", v |-> toks]

IsStr(x) == x.t = "str"

NoExc == [type |-> "None", msg |-> <<>>]

Whitespace == {"\n", "\r", " "}

RECURSIVE LStrip(_)
LStrip(toks) ==
    IF toks # <<>> /\ Head(toks) \in Whitespace THEN LStrip(Tail(toks)) ELSE toks

RECURSIVE RStrip(_)
RStrip(toks) ==
    IF toks # <<>> /\ toks[Len(toks)] \in Whitespace
    THEN RStrip(SubSeq(toks, 1, Len(toks) - 1))
    ELSE toks

\* str.strip("\n\r ")
Strip(toks) == RStrip(LStrip(toks))

----------------------------------------------------------------------------
(* SystemState and the configured systems, one per class *)

OK == "OK"

FAILED == "FAILED"

UNKNOWN == "UNKNOWN"

SystemState == {OK, FAILED, UNKNOWN}

Systems ==
    {"base", "pingable", "wol", "ssh", "doggo", "http", "example"}

ClassOf(s) ==
    CASE s = "base"     -> "System"
      [] s = "pingable" -> "PingableSystem"
      [] s = "wol"      -> "PingableWOLSystem"
      [] s = "ssh"      -> "SSHControllablePingableSystem"
      [] s = "doggo"    -> "SSHControllablePingableWOLSystem"
      [] s = "http"     -> "HTTPServer"
      [] s = "example"  -> "ExampleSystem"

\* Python's method resolution order of each class
MRO(cls) ==
    CASE cls = "System" -> <<"System">>
      [] cls = "PingableSystem" -> <<"PingableSystem", "PingableMixin", "System">>
      [] cls = "PingableWOLSystem" ->
            <<"PingableWOLSystem", "WakeOnLanMixin",
              "PingableSystem", "PingableMixin", "System">>
      [] cls = "SSHControllablePingableSystem" ->
            <<"SSHControllablePingableSystem", "SSHMixin",
              "PingableSystem", "PingableMixin", "System">>
      [] cls = "SSHControllablePingableWOLSystem" ->
            <<"SSHControllablePingableWOLSystem", "WakeOnLanMixin",
              "SSHControllablePingableSystem", "SSHMixin",
              "PingableSystem", "PingableMixin", "System">>
      [] cls = "HTTPServer" -> <<"HTTPServer", "System">>
      [] cls = "ExampleSystem" -> <<"ExampleSystem", "System">>

InMRO(s, cls) == \E i \in 1..Len(MRO(ClassOf(s))) : MRO(ClassOf(s))[i] = cls

\* self.ssh_commands: action name -> command, in insertion order
ssh_commands(s) ==
    CASE s = "ssh"   -> << <<"Restart nginx", "systemctl restart nginx">> >>
      [] s = "doggo" -> << <<"Shutdown", "poweroff">>, <<"Reboot", "reboot">> >>
      [] OTHER       -> <<>>

\* HTTPServer.expected_status
expected_status == 200

----------------------------------------------------------------------------
(* Action objects and get_actions *)

Action(name, c, args) == [name |-> name, c |-> c, args |-> args]

WakeAction == Action("Wake On LAN", "wakeonlan", <<>>)

actions_from_ssh_commands(s) ==
    [i \in 1..Len(ssh_commands(s)) |->
        Action(ssh_commands(s)[i][1], "ssh_exec", ssh_commands(s)[i])]

\* mutant: the wake action offered only while FAILED
PingableWOLSystem_get_actions_failed_only(s) ==
    IF state[s] = FAILED THEN <<WakeAction>> ELSE <<>>

\* PingableWOLSystem.get_actions
PingableWOLSystem_get_actions(s) ==
    IF state[s] # OK THEN <<WakeAction>> ELSE <<>>

\* mutant: the remote-command actions offered only while OK
SSHControllablePingableSystem_get_actions_ok_only(s, super) ==
    IF state[s] = OK
    THEN super \o actions_from_ssh_commands(s)
    ELSE super

\* SSHControllablePingableSystem.get_actions, super being super().get_actions()
SSHControllablePingableSystem_get_actions(s, super) ==
    IF ~(state[s] = FAILED)
    THEN super \o actions_from_ssh_commands(s)
    ELSE super

\* mutant: the wake action guarded by the remote-command condition
SSHControllablePingableWOLSystem_get_actions_not_failed(s, super) ==
    IF state[s] # FAILED THEN Append(super, WakeAction) ELSE super

\* SSHControllablePingableWOLSystem.get_actions
SSHControllablePingableWOLSystem_get_actions(s, super) ==
    IF state[s] # OK THEN Append(super, WakeAction) ELSE super

\* ExampleSystem.get_actions
ExampleSystem_get_actions(s) ==
    IF started[s]
    THEN <<Action("Stop", "stop", <<>>)>>
    ELSE <<Action("Start", "start", <<>>)>>

\* get_actions looked up along the rest of the MRO; a class that does not
\* define it passes the lookup on, super() continues after the defining class
RECURSIVE get_actions_in(_, _)
get_actions_in(s, mro) ==
    IF mro = <<>> THEN <<>>
    ELSE CASE Head(mro) = "System" -> <<>>
           [] Head(mro) = "PingableWOLSystem" -> PingableWOLSystem_get_actions(s)
           [] Head(mro) = "SSHControllablePingableSystem" ->
                SSHControllablePingableSystem_get_actions(
                    s, get_actions_in(s, Tail(mro)))
           [] Head(mro) = "SSHControllablePingableWOLSystem" ->
                SSHControllablePingableWOLSystem_get_actions(
                    s, get_actions_in(s, Tail(mro)))
           [] Head(mro) = "ExampleSystem" -> ExampleSystem_get_actions(s)
           [] OTHER -> get_actions_in(s, Tail(mro))

get_actions(s) == get_actions_in(s, MRO(ClassOf(s)))

----------------------------------------------------------------------------
(* Probes *)

Exc(type, msg) == [type |-> type, msg |-> msg]

\* str(int) of the status codes used
str(n) ==
    CASE n = 200 -> "200"
      [] n = 301 -> "301"
      [] n = 404 -> "404"
      [] n = 0 -> "0"
      [] n = 1 -> "1"
      [] n = 2 -> "2"

ReplyLine == "64 bytes from host: icmp_seq=1 ttl=64 time=12.3 ms"

\* ping_time_regex.findall(stdout): the time of every line holding ttl=.. time=..
RECURSIVE ping_time_findall(_)
ping_time_findall(stdout) ==
    IF stdout = <<>> THEN <<>>
    ELSE IF Head(stdout) = ReplyLine
         THEN <<"12.3 ms">> \o ping_time_findall(Tail(stdout))
         ELSE ping_time_findall(Tail(stdout))

\* what subprocess.run(["ping", ...]) can do: complete with a return code and
\* captured output, or raise (ping binary missing)
PingRuns ==
    {[kind |-> "return", returncode |-> 0,
      stdout |-> <<"PING host", "\n", ReplyLine, "\n">>, stderr |-> <<>>],
     [kind |-> "return", returncode |-> 0,
      stdout |-> <<"PING host", "\n", "\n">>, stderr |-> <<>>],
     [kind |-> "return", returncode |-> 1,
      stdout |-> <<"PING host", "\n", "0 received", "\n">>, stderr |-> <<>>],
     [kind |-> "return", returncode |-> 2,
      stdout |-> <<>>, stderr |-> <<"ping: host: Name or service not known", "\n">>],
     [kind |-> "raise", exc |-> Exc("FileNotFoundError", "No such file: 'ping'")]}

\* PingableMixin.ping reporting success for every return code but 2
ping_lenient(run) ==
    IF run.kind = "raise" THEN run
    ELSE [kind |-> "return", ok |-> (run.returncode # 2),
          stdout |-> run.stdout, stderr |-> run.stderr]

\* PingableMixin.ping
ping(run) ==
    IF run.kind = "raise" THEN run
    ELSE [kind |-> "return", ok |-> (run.returncode = 0),
          stdout |-> run.stdout, stderr |-> run.stderr]

\* what can happen to the HEAD request
HttpCauses ==
    {[kind |-> "response", status |-> 200],
     [kind |-> "response", status |-> 301],
     [kind |-> "response", status |-> 404],
     [kind |-> "refused"], [kind |-> "dns"], [kind |-> "connect_timeout"],
     [kind |-> "read_timeout"], [kind |-> "bad_url"]}

\* requests.head(url, timeout=1.0, ...): a response, or the exception the
\* requests library raises for the cause
requests_head(cause) ==
    CASE cause.kind = "response" ->
            [kind |-> "return", status_code |-> cause.status, url |-> "url"]
      [] cause.kind = "refused" ->
            [kind |-> "raise", exc |-> Exc("ConnectionError", "Connection refused")]
      [] cause.kind = "dns" ->
            [kind |-> "raise", exc |-> Exc("ConnectionError", "Name or service not known")]
      [] cause.kind = "connect_timeout" ->
            [kind |-> "raise", exc |-> Exc("ConnectTimeout", "connect timed out")]
      [] cause.kind = "read_timeout" ->
            [kind |-> "raise", exc |-> Exc("ReadTimeout", "read timed out")]
      [] cause.kind = "bad_url" ->
            [kind |-> "raise", exc |-> Exc("MissingSchema", "Invalid URL")]

\* isinstance(exc, requests.ConnectionError), by the library's class hierarchy
IsConnectionError(exc) == exc.type \in {"ConnectionError", "ConnectTimeout"}

NoProbe == [kind |-> "none"]

\* the probe outcomes a refresh of s can meet
ProbeOutcomes(s) ==
    IF InMRO(s, "PingableMixin") THEN PingRuns
    ELSE IF ClassOf(s) = "HTTPServer" THEN HttpCauses
    ELSE {NoProbe}

----------------------------------------------------------------------------
(* update_state: the pair it assigns, and the exception that leaves it *)

Assigned(st, verbose) == [state |-> st, state_verbose |-> verbose, exc |-> NoExc]

\* System.update_state
System_update_state == Assigned(UNKNOWN, PyStr(<<>>))

\* mutant: no try/except around the probe
PingableSystem_update_state_no_except(run) ==
    LET r == ping(run) IN
    IF r.kind = "raise"
    THEN [state |-> UNKNOWN, state_verbose |-> PyStr(<<>>), exc |-> r.exc]
    ELSE IF r.ok
         THEN LET p_matches == ping_time_findall(r.stdout) IN
              IF Len(p_matches) > 0
              THEN Assigned(OK, PyStr(<<"Ping: ", p_matches[1]>>))
              ELSE Assigned(OK, PyStr(Strip(r.stdout)))
         ELSE Assigned(FAILED, PyStr(Strip(r.stdout \o <<"\n">> \o r.stderr)))

\* PingableSystem.update_state
PingableSystem_update_state(run) ==
    LET r == ping(run) IN
    IF r.kind = "raise"
    THEN Assigned(UNKNOWN, PyStr(<<"Exception: ", r.exc.msg>>))
    ELSE IF r.ok
         THEN LET p_matches == ping_time_findall(r.stdout) IN
              IF Len(p_matches) > 0
              THEN Assigned(OK, PyStr(<<"Ping: ", p_matches[1]>>))
              ELSE Assigned(OK, PyStr(Strip(r.stdout)))
         ELSE Assigned(FAILED, PyStr(Strip(r.stdout \o <<"\n">> \o r.stderr)))

\* mutant: no handler for requests.ConnectionError
HTTPServer_update_state_no_connection_handler(cause) ==
    LET r == requests_head(cause) IN
    IF r.kind = "return"
    THEN Assigned(IF r.status_code = expected_status THEN OK ELSE FAILED,
                  PyStr(<<"Status ", str(r.status_code), " ", r.url>>))
    ELSE Assigned(UNKNOWN, PyStr(<<"Exception: ", r.exc.msg>>))

\* HTTPServer.update_state
HTTPServer_update_state(cause) ==
    LET r == requests_head(cause) IN
    IF r.kind = "return"
    THEN Assigned(IF r.status_code = expected_status THEN OK ELSE FAILED,
                  PyStr(<<"Status ", str(r.status_code), " ", r.url>>))
    ELSE IF IsConnectionError(r.exc)
         THEN Assigned(FAILED, PyStr(<<"Connection failed: ", r.exc.msg>>))
         ELSE Assigned(UNKNOWN, PyStr(<<"Exception: ", r.exc.msg>>))

\* ExampleSystem.update_state
ExampleSystem_update_state(s) ==
    IF started[s]
    THEN Assigned(OK, PyStr(<<s, " is currently started.">>))
    ELSE Assigned(FAILED, PyStr(<<s, " is currently stopped.">>))

\* update_state looked up along the MRO
RECURSIVE update_state_in(_, _, _)
update_state_in(s, mro, probe) ==
    CASE Head(mro) = "System" -> System_update_state
      [] Head(mro) = "PingableSystem" -> PingableSystem_update_state(probe)
      [] Head(mro) = "HTTPServer" -> HTTPServer_update_state(probe)
      [] Head(mro) = "ExampleSystem" -> ExampleSystem_update_state(s)
      [] OTHER -> update_state_in(s, Tail(mro), probe)

update_state(s, probe) == update_state_in(s, MRO(ClassOf(s)), probe)

----------------------------------------------------------------------------
(* Action.__call__ and the operations it wraps *)

\* ui.notify(message, type=, close_button=, timeout=, multi_line=); "default"
\* stands for an argument the call leaves out
Notify(message, type, close_button, timeout, multi_line) ==
    [message |-> message, type |-> type, close_button |-> close_button,
     timeout |-> timeout, multi_line |-> multi_line]

Info(message) == Notify(message, "default", FALSE, "default", FALSE)

\* the exceptions the wrapped operation c can end with; NoExc: it returns
CallExcs(c) ==
    CASE c = "wakeonlan" ->
            {NoExc, Exc("ValueError", "non-hexadecimal number found"),
             Exc("OSError", "Network is unreachable")}
      [] c = "ssh_exec" ->
            {NoExc, Exc("Exception", "Exit status is 1, last stdout: "),
             Exc("SSHException", "not found in known_hosts")}
      [] OTHER -> {NoExc}

\* the notifications the wrapped operation itself emits before it ends with e
OpNotes(s, a, e) ==
    CASE a.c = "wakeonlan" ->
            IF e = NoExc
            THEN <<Info(<<"Magic packet sent to wake up '", s, "'">>)>>
            ELSE <<>>
      [] a.c = "ssh_exec" ->
            <<Info(<<"Executing '", a.args[1], "' on ", s, " via SSH">>)>>
      [] a.c = "start" -> <<Info(<<"Starting ", s>>)>>
      [] a.c = "stop" -> <<Info(<<"Stopping ", s>>)>>

\* mutant: the failure is notified but not raised again
Action_call_swallow(a, e) ==
    IF e = NoExc
    THEN [notes |-> <<Notify(<<"Action '", a.name, "' finished.">>,
                             "positive", FALSE, "default", FALSE)>>,
          raised |-> NoExc]
    ELSE [notes |-> <<Notify(<<"Exception: ", e.msg>>, "warning", TRUE, "0", TRUE)>>,
          raised |-> NoExc]

\* Action.__call__: the notification the wrapper adds and what it raises,
\* the wrapped operation having ended with e
Action_call(a, e) ==
    IF e = NoExc
    THEN [notes |-> <<Notify(<<"Action '", a.name, "' finished.">>,
                             "positive", FALSE, "default", FALSE)>>,
          raised |-> NoExc]
    ELSE [notes |-> <<Notify(<<"Exception: ", e.msg>>, "warning", TRUE, "0", TRUE)>>,
          raised |-> e]

NoCall == [action |-> Action("", "", <<>>), op_exc |-> NoExc,
           notes |-> <<>>, raised |-> NoExc, done |-> FALSE]

----------------------------------------------------------------------------
(* Sequential use of one system: refresh it, list its actions, trigger one *)

InitSys ==
    /\ state = [s \in Systems |-> UNKNOWN]
    /\ state_verbose = [s \in Systems |-> PyStr(<<>>)]
    /\ last_update = [s \in Systems |-> 0]
    /\ started = [s \in Systems |-> FALSE]

\* a worker that runs no refresh; a busy one holds the system whose
\* _update_state it runs, its position, and the values update_state assigns
Idle == [sys |-> "", pc |-> "idle", res |-> Assigned(UNKNOWN, PyStr(<<>>))]

Workers == 1..MaxWorkers

NothingSeen ==
    [sys |-> "", state |-> UNKNOWN, last_update |-> 0, state_verbose |-> PyStr(<<>>)]

InitPoolIdle ==
    /\ queue = <<>>
    /\ workers = [w \in Workers |-> Idle]
    /\ rpc = [i |-> 0, pc |-> "idle"]
    /\ seen = NothingSeen
    /\ render_error = NoExc

\* the address every system is configured with outside the wake runs
DefaultMac ==
    <<"A", "A", ":", "B", "B", ":", "C", "C", ":", "D", "D", ":", "E", "E", ":", "F", "F">>

InitWolIdle ==
    /\ wol_pc = "idle"
    /\ host_mac = DefaultMac
    /\ magic_packet = PyBytes(<<>>)
    /\ sock = "none"
    /\ sent = <<>>
    /\ wol_result = [kind |-> "none"]

InitSshIdle ==
    /\ ssh_pc = "idle"
    /\ client = "none"
    /\ chan = [ready |-> FALSE, exit_status |-> -1, buf |-> <<>>, eof |-> FALSE]
    /\ remote = "none"
    /\ last_output_chunk = PyStr(<<>>)
    /\ ssh_result = [kind |-> "none"]

InitSeq ==
    /\ InitSys
    /\ now = 1
    /\ InitSshIdle
    /\ InitPoolIdle
    /\ InitWolIdle
    /\ sut \in Systems
    /\ escaped = NoExc
    /\ notifications = <<>>
    /\ last_call = NoCall
    /\ last_probe = NoProbe

\* System._update_state, run to completion
_update_state(s, probe) ==
    LET r == update_state(s, probe) IN
    /\ state' = [state EXCEPT ![s] = r.state]
    /\ state_verbose' = [state_verbose EXCEPT ![s] = r.state_verbose]
    /\ last_update' = IF r.exc = NoExc
                      THEN [last_update EXCEPT ![s] = now]
                      ELSE last_update
    /\ escaped' = r.exc
    /\ last_probe' = probe

Refresh ==
    /\ now < MaxTime
    /\ \E probe \in ProbeOutcomes(sut) : _update_state(sut, probe)
    /\ now' = now + 1
    /\ UNCHANGED <<started, sut, notifications, last_call>>
    /\ UNCHANGED <<sshVars, poolVars, renderVars, wolVars>>

\* ExampleSystem.start / ExampleSystem.stop; the other operations leave the
\* system's fields alone
OpEffect(s, a) ==
    IF a.c \in {"start", "stop"}
    THEN /\ state' = [state EXCEPT ![s] = UNKNOWN]
         /\ state_verbose' = [state_verbose EXCEPT ![s] =
                PyStr(<<s, IF a.c = "start" THEN " is currently starting."
                                            ELSE " is currently stopping.">>)]
         /\ started' = [started EXCEPT ![s] = (a.c = "start")]
         /\ UNCHANGED last_update
    ELSE UNCHANGED sysVars

\* the user triggers the i-th action get_actions() offers
Click ==
    /\ now < MaxTime
    /\ \E i \in 1..Len(get_actions(sut)) :
        LET a == get_actions(sut)[i] IN
        \E e \in CallExcs(a.c) :
            LET w == Action_call(a, e) IN
            /\ OpEffect(sut, a)
            /\ notifications' = notifications \o OpNotes(sut, a, e) \o w.notes
            /\ last_call' = [action |-> a, op_exc |-> e,
                             notes |-> OpNotes(sut, a, e) \o w.notes,
                             raised |-> w.raised, done |-> TRUE]
    /\ now' = now + 1
    /\ UNCHANGED <<sut, escaped, last_probe>>
    /\ UNCHANGED <<sshVars, poolVars, renderVars, wolVars>>

NextSeq == Refresh \/ Click

SeqSpec == InitSeq /\ [][NextSeq]_vars

----------------------------------------------------------------------------
(* Properties of the sequential specification SeqSpec *)

Range(f) == {f[i] : i \in DOMAIN f}

HasWake(s) == InMRO(s, "WakeOnLanMixin")

HasSSH(s) == InMRO(s, "SSHMixin")

\* the remote-command actions the configuration of s asks for
ConfiguredSsh(s) == {Action(p[1], "ssh_exec", p) : p \in Range(ssh_commands(s))}

SshOffered(s) == {a \in Range(get_actions(s)) : a.c = "ssh_exec"}

WakeOffered(s) == \E a \in Range(get_actions(s)) : a.c = "wakeonlan"

Refreshed(s) == sut = s /\ last_update[s] > 0

\* C1 as stated: the system with wake and remote-command capabilities offers
\* neither kind of action while OK, only the wake action while FAILED, and
\* the wake action and every remote-command action while UNKNOWN.
C1_AsStated ==
    LET s == "doggo" IN
    /\ state[s] = OK => ~WakeOffered(s) /\ SshOffered(s) = {}
    /\ state[s] = FAILED => get_actions(s) = <<WakeAction>>
    /\ state[s] = UNKNOWN => WakeOffered(s) /\ ConfiguredSsh(s) \subseteq SshOffered(s)

\* C1 amended: while OK the system offers no wake action but every configured
\* remote-command action; while FAILED only the wake action; while UNKNOWN
\* the wake action and every configured remote-command action.
C1_Visibility ==
    LET s == "doggo" IN
    /\ state[s] = OK => ~WakeOffered(s) /\ SshOffered(s) = ConfiguredSsh(s)
    /\ state[s] = FAILED => get_actions(s) = <<WakeAction>>
    /\ state[s] = UNKNOWN => WakeOffered(s) /\ SshOffered(s) = ConfiguredSsh(s)

C1_Witness ==
    /\ Refreshed("doggo") /\ state["doggo"] = OK
    /\ Len(get_actions("doggo")) = Len(ssh_commands("doggo"))

\* C2: in every state, every system offers its configured remote-command
\* actions if it has the remote-command capability and is not FAILED, and
\* offers no remote-command action otherwise.
C2_SshIffNotFailed ==
    \A s \in Systems :
        IF HasSSH(s) /\ state[s] # FAILED
        THEN SshOffered(s) = ConfiguredSsh(s)
        ELSE SshOffered(s) = {}

C2_Witness ==
    /\ Refreshed("ssh") /\ state["ssh"] = OK
    /\ SshOffered("ssh") # {}

\* C3: in every state, every system offers the "Wake On LAN" action exactly
\* when it has the wake capability and is not OK.
C3_WakeIffNotOk ==
    \A s \in Systems : WakeOffered(s) <=> (HasWake(s) /\ state[s] # OK)

C3_Witness ==
    /\ Refreshed("wol") /\ state["wol"] = FAILED
    /\ get_actions("wol") = <<WakeAction>>

\* C4: whatever the probe meets, no exception leaves _update_state, the state
\* is one of OK, FAILED, UNKNOWN and state_verbose is a string.
C4_RefreshContained ==
    /\ escaped = NoExc
    /\ \A s \in Systems : state[s] \in SystemState /\ IsStr(state_verbose[s])

C4_Witness ==
    /\ Refreshed("pingable") /\ last_probe.kind = "raise"
    /\ state["pingable"] = UNKNOWN
    /\ state_verbose["pingable"] = PyStr(<<"Exception: ", last_probe.exc.msg>>)

HttpRefreshed == Refreshed("http") /\ last_probe \in HttpCauses

\* C8 as stated: a response with the expected status gives OK, any other
\* status FAILED, a refused connection FAILED, and every other exception
\* (DNS resolution error, malformed URL, timeout) UNKNOWN.
C8_AsStated ==
    HttpRefreshed =>
        state["http"] =
            CASE last_probe.kind = "response" ->
                    IF last_probe.status = expected_status THEN OK ELSE FAILED
              [] last_probe.kind = "refused" -> FAILED
              [] OTHER -> UNKNOWN

\* C8 amended: a response with the expected status gives OK, any other
\* status FAILED; a failure the client raises as a ConnectionError (refused
\* connection, DNS resolution error, connect timeout) gives FAILED; any other
\* exception (malformed URL, read timeout) gives UNKNOWN.
C8_HttpOutcome ==
    HttpRefreshed =>
        state["http"] =
            CASE last_probe.kind = "response" ->
                    IF last_probe.status = expected_status THEN OK ELSE FAILED
              [] last_probe.kind \in {"refused", "dns", "connect_timeout"} -> FAILED
              [] OTHER -> UNKNOWN

C8_Witness == HttpRefreshed /\ last_probe.kind = "dns" /\ state["http"] = FAILED

Count(notes, P(_)) == Cardinality({i \in DOMAIN notes : P(notes[i])})

\* C9: an invocation of an Action either wraps an operation that returned,
\* emits one positive "Action '<name>' finished." and raises nothing, or
\* wraps an operation that raised, emits one non-expiring dismissable warning
\* with the failure text and raises that same failure.
C9_ActionOutcome ==
    LET IsFinished(n) == /\ n.type = "positive"
                         /\ n.message = <<"Action '", last_call.action.name, "' finished.">>
        IsPositive(n) == n.type = "positive"
        IsWarning(n) == n.type = "warning"
        IsFailure(n) == /\ n.type = "warning" /\ n.timeout = "0" /\ n.close_button
                        /\ last_call.op_exc.msg \in Range(n.message)
    IN  last_call.done =>
            \/ /\ last_call.op_exc = NoExc
               /\ last_call.raised = NoExc
               /\ Count(last_call.notes, IsFinished) = 1
               /\ Count(last_call.notes, IsPositive) = 1
               /\ Count(last_call.notes, IsWarning) = 0
            \/ /\ last_call.op_exc # NoExc
               /\ last_call.raised = last_call.op_exc
               /\ Count(last_call.notes, IsFailure) = 1
               /\ Count(last_call.notes, IsWarning) = 1
               /\ Count(last_call.notes, IsPositive) = 0

C9_Witness ==
    /\ last_call.done /\ last_call.op_exc # NoExc
    /\ last_call.raised = last_call.op_exc

----------------------------------------------------------------------------
(* SSHMixin.ssh_exec, step by step, against a remote command that sends    *)
(* output and exits on its own schedule                                    *)

\* an output chunk as recv(1024) hands it over; the last one is cut inside a
\* multi-byte character
Chunks == {"out", "err", "cut"}

ExitStatuses == {0, 1, 2}

\* bytes.decode(): the text, or UnicodeDecodeError
decode(b) ==
    IF b.t # "bytes"
    THEN [kind |-> "raise",
          exc |-> Exc("AttributeError", "'str' object has no attribute 'decode'")]
    ELSE IF "cut" \in Range(b.v)
         THEN [kind |-> "raise",
               exc |-> Exc("UnicodeDecodeError", "unexpected end of data")]
         ELSE [kind |-> "return", value |-> PyStr(b.v)]

InitSsh ==
    /\ InitSys
    /\ InitSshIdle
    /\ InitPoolIdle
    /\ InitWolIdle
    /\ now = 1
    /\ sut \in {s \in Systems : HasSSH(s)}
    /\ escaped = NoExc
    /\ notifications = <<>>
    /\ last_call = NoCall
    /\ last_probe = NoProbe

\* line 129-130: the notification, then SSHClient() enters the with block
SshStart ==
    /\ ssh_pc = "idle"
    /\ \E i \in 1..Len(ssh_commands(sut)) :
        notifications' = Append(notifications,
            Info(<<"Executing '", ssh_commands(sut)[i][1], "' on ", sut, " via SSH">>))
    /\ client' = "open"
    /\ ssh_pc' = "connect"
    /\ UNCHANGED <<chan, remote, last_output_chunk, ssh_result>>
    /\ UNCHANGED <<sysVars, now, sut, escaped, last_call, last_probe, poolVars, renderVars, wolVars>>

\* ssh_exec ending with the client left open
SshEnd_leak(result) ==
    /\ ssh_result' = result
    /\ UNCHANGED client
    /\ ssh_pc' = "done"

\* leaving the with block closes the client
SshEnd(result) ==
    /\ ssh_result' = result
    /\ client' = "closed"
    /\ ssh_pc' = "done"

\* lines 131-139: connect, open the session and start the command; any of
\* these can raise
SshConnect ==
    /\ ssh_pc = "connect"
    /\ \/ /\ remote' = "running"
          /\ last_output_chunk' = PyStr(<<>>)
          /\ ssh_pc' = "poll"
          /\ UNCHANGED <<client, ssh_result>>
       \/ /\ \E e \in {Exc("SSHException", "not found in known_hosts"),
                       Exc("AuthenticationException", "Authentication failed."),
                       Exc("TimeoutError", "timed out")} :
                SshEnd([kind |-> "raise", exc |-> e])
          /\ UNCHANGED <<remote, last_output_chunk>>
    /\ UNCHANGED chan
    /\ UNCHANGED <<sysVars, seqVars, poolVars, renderVars, wolVars>>

\* the remote command writes a chunk to its output
RemoteEmit ==
    /\ remote = "running"
    /\ Len(chan.buf) < MaxChunks
    /\ \E c \in Chunks : chan' = [chan EXCEPT !.buf = Append(@, c)]
    /\ UNCHANGED <<ssh_pc, client, remote, last_output_chunk, ssh_result>>
    /\ UNCHANGED <<sysVars, seqVars, poolVars, renderVars, wolVars>>

\* the remote command exits; the channel gets the status and end of file
RemoteExit ==
    /\ remote = "running"
    /\ \E st \in ExitStatuses :
        chan' = [chan EXCEPT !.ready = TRUE, !.exit_status = st, !.eof = TRUE]
    /\ remote' = "exited"
    /\ UNCHANGED <<ssh_pc, client, last_output_chunk, ssh_result>>
    /\ UNCHANGED <<sysVars, seqVars, poolVars, renderVars, wolVars>>

\* line 140, and lines 142-143 once the status is there
SshPoll ==
    /\ ssh_pc = "poll"
    /\ IF ~chan.ready
       THEN /\ ssh_pc' = "recv"
            /\ UNCHANGED <<client, ssh_result>>
       ELSE IF ~(chan.exit_status = 0)
            THEN LET d == decode(last_output_chunk) IN
                 IF d.kind = "raise"
                 THEN SshEnd(d)
                 ELSE SshEnd([kind |-> "raise",
                              exc |-> Exc("Exception",
                                  <<"Exit status is ", str(chan.exit_status),
                                    ", last stdout: ", d.value.v>>)])
            ELSE SshEnd([kind |-> "return"])
    /\ UNCHANGED <<chan, remote, last_output_chunk>>
    /\ UNCHANGED <<sysVars, seqVars, poolVars, renderVars, wolVars>>

\* line 141: recv blocks until a chunk is there or the channel is at its end,
\* where it returns b""
SshRecv ==
    /\ ssh_pc = "recv"
    /\ \/ /\ chan.buf # <<>>
          /\ last_output_chunk' = PyBytes(<<Head(chan.buf)>>)
          /\ chan' = [chan EXCEPT !.buf = Tail(@)]
       \/ /\ chan.buf = <<>> /\ chan.eof
          /\ last_output_chunk' = PyBytes(<<>>)
          /\ UNCHANGED chan
    /\ ssh_pc' = "poll"
    /\ UNCHANGED <<client, remote, ssh_result>>
    /\ UNCHANGED <<sysVars, seqVars, poolVars, renderVars, wolVars>>

NextSsh == SshStart \/ SshConnect \/ RemoteEmit \/ RemoteExit \/ SshPoll \/ SshRecv

SshSpec == InitSsh /\ [][NextSsh]_vars

\* C10: a remote command that ended with a non-zero exit status makes
\* ssh_exec raise an error that carries the exit code and the last output
\* chunk, however its completion interleaves with the polling loop.
C10_NonZeroExitRaised ==
    (ssh_pc = "done" /\ remote = "exited" /\ chan.exit_status # 0) =>
        /\ ssh_result.kind = "raise"
        /\ ssh_result.exc = Exc("Exception",
                <<"Exit status is ", str(chan.exit_status),
                  ", last stdout: ", last_output_chunk.v>>)

----------------------------------------------------------------------------
(* init_ui: the refresh scheduler, the thread pool that runs the refreshes *)
(* and the renderer, each refresh and each rendering going field by field  *)

\* the configured list handed to init_ui: headings and systems
systems == <<"Servers", "pingable", "example">>

IsSystem(t) == t \in Systems

\* subprocess.run is called without a timeout, requests.head with timeout=1.0
CanHang(s) == InMRO(s, "PingableMixin")

Init ==
    /\ InitSys
    /\ InitSshIdle
    /\ InitPoolIdle
    /\ InitWolIdle
    /\ now = 1
    /\ sut = ""
    /\ escaped = NoExc
    /\ notifications = <<>>
    /\ last_call = NoCall
    /\ last_probe = NoProbe

\* update_states, fired by ui.timer: one run.io_bound(t._update_state) per
\* system of the list, gathered and not awaited
update_states ==
    /\ now <= MaxTicks
    /\ LET ts == SelectSeq(systems, IsSystem) IN
       queue' = queue \o ts
    /\ now' = now + 1
    /\ UNCHANGED workers
    /\ UNCHANGED <<sysVars, sut, escaped, notifications, last_call, last_probe>>
    /\ UNCHANGED <<sshVars, renderVars, wolVars>>

\* the pool's threads are alike: the lowest free one takes the next task
Free(w) == workers[w] = Idle /\ \A v \in Workers : v < w => workers[v] # Idle

\* a free worker takes the oldest task and runs update_state up to its
\* first assignment; an exception that leaves update_state ends the task
Start ==
    /\ queue # <<>>
    /\ \E w \in Workers :
        /\ Free(w)
        /\ \E probe \in ProbeOutcomes(Head(queue)) :
            LET res == update_state(Head(queue), probe) IN
            workers' = [workers EXCEPT ![w] =
                IF res.exc = NoExc
                THEN [sys |-> Head(queue), pc |-> "state", res |-> res]
                ELSE Idle]
    /\ queue' = Tail(queue)
    /\ UNCHANGED <<sysVars, seqVars, sshVars, renderVars, wolVars>>

\* a free worker takes the oldest task and its probe never returns
StartHung ==
    /\ queue # <<>>
    /\ CanHang(Head(queue))
    /\ \E w \in Workers :
        /\ Free(w)
        /\ workers' = [workers EXCEPT ![w] =
                [sys |-> Head(queue), pc |-> "hung", res |-> Idle.res]]
    /\ queue' = Tail(queue)
    /\ UNCHANGED <<sysVars, seqVars, sshVars, renderVars, wolVars>>

\* self.state = ...
WriteState ==
    \E w \in Workers :
        LET s == workers[w].sys IN
        /\ workers[w].pc = "state"
        /\ state' = [state EXCEPT ![s] = workers[w].res.state]
        /\ workers' = [workers EXCEPT ![w].pc = "verbose"]
        /\ UNCHANGED <<state_verbose, last_update, started, queue>>
        /\ UNCHANGED <<seqVars, sshVars, renderVars, wolVars>>

\* self.state_verbose = ...
WriteVerbose ==
    \E w \in Workers :
        LET s == workers[w].sys IN
        /\ workers[w].pc = "verbose"
        /\ state_verbose' = [state_verbose EXCEPT ![s] = workers[w].res.state_verbose]
        /\ workers' = [workers EXCEPT ![w].pc = "last"]
        /\ UNCHANGED <<state, last_update, started, queue>>
        /\ UNCHANGED <<seqVars, sshVars, renderVars, wolVars>>

\* the assignment of last_update reaching every system
WriteLast_shared ==
    \E w \in Workers :
        /\ workers[w].pc = "last"
        /\ last_update' = [s \in DOMAIN last_update |-> now]
        /\ workers' = [workers EXCEPT ![w] = Idle]
        /\ UNCHANGED <<state, state_verbose, started, queue>>
        /\ UNCHANGED <<seqVars, sshVars, renderVars, wolVars>>

\* self.last_update = time.time(), and the task returns
WriteLast ==
    \E w \in Workers :
        LET s == workers[w].sys IN
        /\ workers[w].pc = "last"
        /\ last_update' = [last_update EXCEPT ![s] = now]
        /\ workers' = [workers EXCEPT ![w] = Idle]
        /\ UNCHANGED <<state, state_verbose, started, queue>>
        /\ UNCHANGED <<seqVars, sshVars, renderVars, wolVars>>

\* the next system of the list after item i, 0 when there is none
NextItem(i) ==
    LET later == {j \in (i + 1)..Len(systems) : IsSystem(systems[j])} IN
    IF later = {} THEN 0 ELSE CHOOSE j \in later : \A k \in later : j <= k

RenderAt(i) == IF i = 0 THEN [i |-> 0, pc |-> "idle"] ELSE [i |-> i, pc |-> "state"]

\* systems_list.refresh, fired by ui.timer
RenderBegin ==
    /\ rpc.pc = "idle"
    /\ rpc' = RenderAt(NextItem(0))
    /\ UNCHANGED seen
    /\ render_error' = NoExc
    /\ UNCHANGED <<sysVars, seqVars, sshVars, poolVars, wolVars>>

\* line 24: t.state picks the card's colour
ReadState ==
    /\ rpc.pc = "state"
    /\ seen' = [NothingSeen EXCEPT !.sys = systems[rpc.i],
                                   !.state = state[systems[rpc.i]]]
    /\ rpc' = [rpc EXCEPT !.pc = "last"]
    /\ UNCHANGED render_error
    /\ UNCHANGED <<sysVars, seqVars, sshVars, poolVars, wolVars>>

\* line 35: t.last_update
ReadLast ==
    /\ rpc.pc = "last"
    /\ seen' = [seen EXCEPT !.last_update = last_update[systems[rpc.i]]]
    /\ rpc' = [rpc EXCEPT !.pc = "verbose"]
    /\ UNCHANGED render_error
    /\ UNCHANGED <<sysVars, seqVars, sshVars, poolVars, wolVars>>

\* lines 38-39: t.state_verbose
ReadVerbose ==
    /\ rpc.pc = "verbose"
    /\ seen' = [seen EXCEPT !.state_verbose = state_verbose[systems[rpc.i]]]
    /\ rpc' = [rpc EXCEPT !.pc = "actions"]
    /\ UNCHANGED render_error
    /\ UNCHANGED <<sysVars, seqVars, sshVars, poolVars, wolVars>>

\* the action buttons, with a refresh of the system requested on the way
RenderActions_probing ==
    /\ rpc.pc = "actions"
    /\ IF Len(get_actions(systems[rpc.i])) > 0
       THEN /\ render_error' =
                Exc("AttributeError", "'list' object has no attribute 'items'")
            /\ rpc' = RenderAt(0)
       ELSE /\ rpc' = RenderAt(NextItem(rpc.i))
            /\ UNCHANGED render_error
    /\ seen' = NothingSeen
    /\ queue' = Append(queue, systems[rpc.i])
    /\ UNCHANGED <<sysVars, seqVars, sshVars, workers, wolVars>>

\* lines 40-46: the action buttons; actions is a list, and .items() on a
\* list that is not empty ends the rendering with AttributeError
RenderActions ==
    /\ rpc.pc = "actions"
    /\ IF Len(get_actions(systems[rpc.i])) > 0
       THEN /\ render_error' =
                Exc("AttributeError", "'list' object has no attribute 'items'")
            /\ rpc' = RenderAt(0)
       ELSE /\ rpc' = RenderAt(NextItem(rpc.i))
            /\ UNCHANGED render_error
    /\ seen' = NothingSeen
    /\ UNCHANGED <<sysVars, seqVars, sshVars, poolVars, wolVars>>

Next ==
    \/ update_states \/ Start \/ StartHung
    \/ WriteState \/ WriteVerbose \/ WriteLast
    \/ RenderBegin \/ ReadState \/ ReadLast \/ ReadVerbose \/ RenderActions

Spec == Init /\ [][Next]_vars

----------------------------------------------------------------------------
(* Properties of the scheduler, pool and renderer specification Spec *)

Hung(w) == workers[w].pc = "hung"

Queued(s) == Cardinality({i \in DOMAIN queue : queue[i] = s})

Running(s) == Cardinality({w \in Workers : workers[w].sys = s})

\* refresh tasks of s started or queued and not yet returned
InFlight(s) == Queued(s) + Running(s)

\* C5: a refresh of one system is never kept waiting by the hung probes of
\* another one: whenever a refresh waits in the pool's queue, some worker is
\* not held by a hung probe of a different system.
C5_OthersNotBlocked ==
    \A i \in DOMAIN queue :
        \E w \in Workers : ~(Hung(w) /\ workers[w].sys # queue[i])

\* the largest overlap a guard could allow within the ticks explored
OverlapLimit == MaxTicks - 1

\* C6: refreshes do not pile up: the refresh tasks in flight for one system
\* stay within a limit however many ticks fire before they complete.
C6_NoPileUp == \A s \in Systems : InFlight(s) <= OverlapLimit

\* the (state, state_verbose, last_update) combinations that exist before or
\* after a whole refresh of s: the constructor's, or one update_state's pair
\* stamped with the time of a refresh
WholeViews(s) ==
    {[state |-> UNKNOWN, state_verbose |-> PyStr(<<>>), refreshed |-> FALSE]}
    \cup {[state |-> update_state(s, p).state,
           state_verbose |-> update_state(s, p).state_verbose,
           refreshed |-> TRUE] : p \in ProbeOutcomes(s)}

\* C7: what the renderer has read of a system, once it has read state,
\* last_update and state_verbose, is a combination from before or from after
\* a whole refresh, never a mixture.
C7_NoTornRead ==
    rpc.pc = "actions" =>
        [state |-> seen.state, state_verbose |-> seen.state_verbose,
         refreshed |-> seen.last_update > 0] \in WholeViews(seen.sys)

----------------------------------------------------------------------------
(* WakeOnLanMixin.wakeonlan, statement by statement; a text is a sequence  *)
(* of one-character strings, bytes a sequence of numbers 0..255            *)

\* the hardware addresses a system can be configured with
MacInputs ==
    {DefaultMac,
     <<"a", "a", "-", "b", "b", "-", "c", "c", "-", "d", "d", "-", "e", "e", "-", "f", "f">>,
     <<"0", "1", ":", "2", "3", ":", "4", "5", ":", "6", "7", ":", "8", "9", ":", "a", "B">>,
     <<"0", "A", "-", "1", "b", ":", "2", "C", "-", "3", "d", ":", "4", "E", "-", "5", "f">>,
     <<"A", "A", ":", "B", "B", ":", "C", "C", ":", "D", "D", ":", "E", "E", ":", "F">>,
     <<"G", "G", ":", "B", "B", ":", "C", "C", ":", "D", "D", ":", "E", "E", ":", "F", "F">>,
     <<"A", "A", ":", "B", "B", ":", "C", "C", ":", "D", "D", ":", "E", "E">>,
     <<"A", "A", ":", "B", "B", ":", "C", "C", ":", "D", "D", ":", "E", "E", ":", "F", "F", ":", "0", "0">>,
     <<"A", "A", " ", "B", "B", " ", "C", "C", " ", "D", "D", " ", "E", "E", " ", "F", "F">>,
     <<>>}

\* str.replace(ch, '')
RECURSIVE replace(_, _)
replace(text, ch) ==
    IF text = <<>> THEN <<>>
    ELSE IF Head(text) = ch THEN replace(Tail(text), ch)
         ELSE <<Head(text)>> \o replace(Tail(text), ch)

LowerOf(ch) ==
    CASE ch = "A" -> "a" [] ch = "B" -> "b" [] ch = "C" -> "c"
      [] ch = "D" -> "d" [] ch = "E" -> "e" [] ch = "F" -> "f"
      [] ch = "G" -> "g" [] OTHER -> ch

\* str.lower()
lower(text) == [i \in 1..Len(text) |-> LowerOf(text[i])]

HexDigits == {"0", "1", "2", "3", "4", "5", "6", "7", "8", "9",
              "a", "b", "c", "d", "e", "f", "A", "B", "C", "D", "E", "F"}

HexVal(ch) ==
    CASE ch = "0" -> 0 [] ch = "1" -> 1 [] ch = "2" -> 2 [] ch = "3" -> 3
      [] ch = "4" -> 4 [] ch = "5" -> 5 [] ch = "6" -> 6 [] ch = "7" -> 7
      [] ch = "8" -> 8 [] ch = "9" -> 9
      [] LowerOf(ch) = "a" -> 10 [] LowerOf(ch) = "b" -> 11
      [] LowerOf(ch) = "c" -> 12 [] LowerOf(ch) = "d" -> 13
      [] LowerOf(ch) = "e" -> 14 [] LowerOf(ch) = "f" -> 15

\* bytes.fromhex(text): two hex digits per byte, white space between bytes
\* skipped; <<-1>> stands for ValueError
RECURSIVE fromhex(_)
fromhex(text) ==
    IF text = <<>> THEN <<>>
    ELSE IF Head(text) \in Whitespace THEN fromhex(Tail(text))
    ELSE IF Len(text) >= 2 /\ text[1] \in HexDigits /\ text[2] \in HexDigits
         THEN LET rest == fromhex(SubSeq(text, 3, Len(text))) IN
              IF rest = <<-1>> THEN rest
              ELSE <<16 * HexVal(text[1]) + HexVal(text[2])>> \o rest
         ELSE <<-1>>

\* bytes * n
RECURSIVE times(_, _)
times(b, n) == IF n = 0 THEN <<>> ELSE b \o times(b, n - 1)

\* line 106
host_mac_bin(mac) == fromhex(lower(replace(replace(mac, ":"), "-")))

\* line 107 with the address repeated once too few
magic_packet_of_short(mac_bin) == times(<<255>>, 6) \o times(mac_bin, 15)

\* line 107
magic_packet_of(mac_bin) == times(<<255>>, 6) \o times(mac_bin, 16)

\* line 110: the ports the packet goes to, in order
WolPorts == <<7, 9>>

Broadcast == "255.255.255.255"

InitWol ==
    /\ InitSys
    /\ InitSshIdle
    /\ InitPoolIdle
    /\ wol_pc = "idle"
    /\ host_mac \in MacInputs
    /\ magic_packet = PyBytes(<<>>)
    /\ sock = "none"
    /\ sent = <<>>
    /\ wol_result = [kind |-> "none"]
    /\ now = 1
    /\ sut \in {s \in Systems : InMRO(s, "WakeOnLanMixin")}
    /\ escaped = NoExc
    /\ notifications = <<>>
    /\ last_call = NoCall
    /\ last_probe = NoProbe

\* how wakeonlan ends; leaving the with block closes the socket
WolEnd(result) ==
    /\ wol_result' = result
    /\ sock' = IF sock = "open" THEN "closed" ELSE sock
    /\ wol_pc' = "done"

\* lines 104-107: the address is converted and the packet built
WolBuild ==
    /\ wol_pc = "idle"
    /\ IF host_mac_bin(host_mac) = <<-1>>
       THEN /\ WolEnd([kind |-> "raise",
                       exc |-> Exc("ValueError", "non-hexadecimal number found")])
            /\ UNCHANGED magic_packet
       ELSE /\ magic_packet' = PyBytes(magic_packet_of(host_mac_bin(host_mac)))
            /\ wol_pc' = "socket"
            /\ UNCHANGED <<sock, wol_result>>
    /\ UNCHANGED <<host_mac, sent>>
    /\ UNCHANGED <<sysVars, seqVars, sshVars, poolVars, renderVars>>

\* lines 108-109: the socket is opened and set to broadcast, or the system
\* refuses
WolSocket ==
    /\ wol_pc = "socket"
    /\ \/ /\ sock' = "open"
          /\ wol_pc' = "send"
          /\ UNCHANGED wol_result
       \/ WolEnd([kind |-> "raise", exc |-> Exc("OSError", "Too many open files")])
    /\ UNCHANGED <<host_mac, magic_packet, sent>>
    /\ UNCHANGED <<sysVars, seqVars, sshVars, poolVars, renderVars>>

\* lines 110-111: one sendto per port, the next port being the one after
\* those already sent to; the network can refuse
WolSendto ==
    /\ wol_pc = "send"
    /\ Len(sent) < Len(WolPorts)
    /\ \/ /\ sent' = Append(sent, [payload |-> magic_packet, host |-> Broadcast,
                                   port |-> WolPorts[Len(sent) + 1]])
          /\ UNCHANGED <<wol_pc, sock, wol_result>>
       \/ /\ WolEnd([kind |-> "raise", exc |-> Exc("OSError", "Network is unreachable")])
          /\ UNCHANGED sent
    /\ UNCHANGED <<host_mac, magic_packet>>
    /\ UNCHANGED <<sysVars, seqVars, sshVars, poolVars, renderVars>>

\* line 112: the notification, and wakeonlan returns
WolNotify ==
    /\ wol_pc = "send"
    /\ Len(sent) = Len(WolPorts)
    /\ notifications' = Append(notifications,
            Info(<<"Magic packet sent to wake up '", sut, "'">>))
    /\ WolEnd([kind |-> "return"])
    /\ UNCHANGED <<host_mac, magic_packet, sent>>
    /\ UNCHANGED <<sysVars, now, sut, escaped, last_call, last_probe>>
    /\ UNCHANGED <<sshVars, poolVars, renderVars>>

NextWol == WolBuild \/ WolSocket \/ WolSendto \/ WolNotify

WolSpec == InitWol /\ [][NextWol]_vars

----------------------------------------------------------------------------
(* Properties of wakeonlan *)

IsSeparator(ch) == ch \in {":", "-"}

\* the octets of an address: its characters without the separators, in pairs
Digits(mac) == SelectSeq(mac, LAMBDA ch : ~IsSeparator(ch))

\* six octets of two hex digits, separated by colons or hyphens
WellFormed(mac) ==
    /\ Len(mac) = 17
    /\ \A i \in 1..17 : IF i \in {3, 6, 9, 12, 15}
                        THEN IsSeparator(mac[i])
                        ELSE mac[i] \in HexDigits

\* not six octets, or a character that is no hex digit
Malformed(mac) ==
    \/ Len(Digits(mac)) # 12
    \/ \E i \in 1..Len(Digits(mac)) : Digits(mac)[i] \notin HexDigits

\* the i-th octet of a well-formed address
Octet(mac, i) == 16 * HexVal(mac[3 * i - 2]) + HexVal(mac[3 * i - 1])

\* C11: for a well-formed address the packet is 6 bytes 0xFF followed by the
\* six address bytes 16 times, 102 bytes, and a wakeonlan that returns has
\* sent exactly this packet to the broadcast address on port 7 and on port 9,
\* once each.
C11_MagicPacket ==
    (WellFormed(host_mac) /\ wol_pc \notin {"idle"} /\ wol_result.kind # "raise") =>
        /\ Len(magic_packet.v) = 102
        /\ \A i \in 1..6 : magic_packet.v[i] = 255
        /\ \A k \in 0..15 : \A i \in 1..6 :
                magic_packet.v[6 + 6 * k + i] = Octet(host_mac, i)
        /\ \A j \in 1..Len(sent) : sent[j].payload = magic_packet
        /\ wol_result.kind = "return" =>
                /\ Len(sent) = 2
                /\ sent[1].host = Broadcast /\ sent[1].port = 7
                /\ sent[2].host = Broadcast /\ sent[2].port = 9

C11_Witness ==
    /\ WellFormed(host_mac) /\ wol_result.kind = "return"
    /\ Len(sent) = 2 /\ Len(magic_packet.v) = 102

\* C12: for a malformed address wakeonlan opens no socket and sends no
\* datagram, and ends with an error.
C12_MalformedRejected ==
    Malformed(host_mac) =>
        /\ sock = "none" /\ sent = <<>>
        /\ wol_pc \in {"idle", "done"}
        /\ wol_pc = "done" => wol_result.kind = "raise"

----------------------------------------------------------------------------
(* Further properties of the scheduler, pool and renderer specification    *)

\* the (state, state_verbose) pairs one single update_state of s assigns
WholePairs(s) ==
    {<<update_state(s, p).state, update_state(s, p).state_verbose>> :
        p \in ProbeOutcomes(s)}

\* C13: once every refresh of a system has completed, its state and
\* state_verbose are the pair assigned by one single refresh, also when
\* refreshes of that system overlapped.
C13_LastWriterWins ==
    \A s \in Systems :
        (InFlight(s) = 0 /\ last_update[s] > 0) =>
            <<state[s], state_verbose[s]>> \in WholePairs(s)

----------------------------------------------------------------------------
(* Further properties of the sequential specification SeqSpec *)

IsPingable(s) == InMRO(s, "PingableSystem")

\* the ping process could not do its work: the binary is missing (the run
\* raises) or the host name does not resolve (return code 2)
ProcessFailure(run) ==
    \/ run.kind = "raise"
    \/ run.kind = "return" /\ run.returncode = 2

\* C14: after a refresh of a PingableSystem the state is OK when the ping
\* process succeeded, FAILED when it failed and UNKNOWN with the exception's
\* message when the probe raised; the state is UNKNOWN only before the first
\* refresh or after a probe that raised.
C14_PingOutcome ==
    \A s \in Systems :
        IsPingable(s) =>
            /\ Refreshed(s) =>
                /\ last_probe \in PingRuns
                /\ state[s] =
                     CASE last_probe.kind = "raise" -> UNKNOWN
                       [] last_probe.kind = "return" /\ last_probe.returncode = 0 -> OK
                       [] OTHER -> FAILED
                /\ last_probe.kind = "raise" =>
                     state_verbose[s] = PyStr(<<"Exception: ", last_probe.exc.msg>>)
            /\ state[s] = UNKNOWN =>
                \/ last_update[s] = 0
                \/ sut = s /\ last_probe.kind = "raise"

C14_Witness ==
    /\ Refreshed("wol") /\ state["wol"] = FAILED
    /\ last_probe.kind = "return" /\ last_probe.returncode = 1
    /\ last_call.done

\* C15: the ping probe does not raise: when the ping process fails at the
\* process level the probe returns ok = false with the diagnostic text, and
\* the refresh records FAILED.
C15_ProbeNeverRaises ==
    \A s \in Systems :
        (IsPingable(s) /\ Refreshed(s) /\ ProcessFailure(last_probe)) =>
            /\ ping(last_probe).kind = "return"
            /\ state[s] = FAILED

----------------------------------------------------------------------------
(* Further properties of the ssh_exec specification SshSpec *)

\* the steps ssh_exec takes itself, as opposed to those of the remote command
SshStep == SshStart \/ SshConnect \/ SshPoll \/ SshRecv

\* C16: a started ssh_exec never depends on the remote side to go on: as
\* long as it has not ended, a step of its own is possible, a wait for the
\* network ending by its timeout when the host does not answer.
C16_NeverWaitsUnbounded ==
    ssh_pc \notin {"idle", "done"} => ENABLED SshStep

----------------------------------------------------------------------------
(* Frame properties of the scheduler, pool and renderer specification *)

\* a step of systems_list.refresh: the renderer's position, what it has
\* read, or its error changes
RenderStep == <<rpc, seen, render_error>>' # <<rpc, seen, render_error>>

\* the fields of s change
FieldsChange(s) ==
    \/ state'[s] # state[s]
    \/ state_verbose'[s] # state_verbose[s]
    \/ last_update'[s] # last_update[s]

\* a step of a refresh task of s running in the pool
RefreshStep(s) ==
    \E w \in Workers : workers[w].sys = s /\ workers'[w] # workers[w]

\* C17: a step of the renderer, get_actions included, leaves state,
\* state_verbose and last_update of every system as they are and starts no
\* refresh: queue and workers do not change.
C17_RenderOnlyReads ==
    [][RenderStep => UNCHANGED <<sysVars, poolVars>>]_vars

C17_Witness ==
    /\ rpc.pc = "idle" /\ render_error # NoExc
    /\ last_update["pingable"] > 0 /\ last_update["example"] > 0

----------------------------------------------------------------------------
(* Resources of ssh_exec and the renderer's action buttons *)

\* C19: ssh_exec has one client, open from the start of the with block to
\* its end, and however ssh_exec ends (return, non-zero exit status, failed
\* connection or authentication, exception while polling) the client is
\* closed.
C19_SessionClosed ==
    /\ ssh_pc = "idle" => client = "none"
    /\ ssh_pc \in {"connect", "poll", "recv"} => client = "open"
    /\ ssh_pc = "done" => client = "closed" /\ ssh_result.kind \in {"return", "raise"}

C19_Witness ==
    /\ ssh_pc = "done" /\ client = "closed"
    /\ ssh_result.kind = "raise" /\ ssh_result.exc.type = "UnicodeDecodeError"

\* C20: the renderer gets through every system with a non-empty list of
\* actions: no render cycle ends with an error.
C20_RenderCompletes == render_error = NoExc

====
